---- MODULE Spec2Model ----
(***************************************************************************)
(* Synthetic IMU data generator of the vertex repository                   *)
(* (src/tools/generate_synthetic_imu.py): scenario objects, the scenario   *)
(* generator, the two sequencers (generate_custom_ride and                 *)
(* generate_test_ride) and the noise injector.                             *)
(*                                                                         *)
(* Numbers.  A Python float is modelled by an exact rational <<n, d>> with *)
(* d > 0 and gcd(n, d) = 1, so sums, products and quotients are those of   *)
(* real arithmetic; the rounding of IEEE doubles is not modelled.  A value *)
(* that has an irrational part (the trigonometric channels of a corner)    *)
(* is <<n, d, term>>: the rational n/d plus an uninterpreted term.         *)
(***************************************************************************)
EXTENDS Integers, Sequences, FiniteSets, TLC

(***************************************************************************)
(* Bounds of the model.                                                    *)
(***************************************************************************)
\* longest scenario list handed to generate_custom_ride
MaxScenarios == 2
\* durations are -1/2, 0, 1/2, ... MaxDurHalves/2 seconds
MaxDurHalves == 3
\* sample rates are -1, 0, 1, ... MaxRate Hz
MaxRate == 2
\* start times of a direct generate() call are -1/2 ... MaxStartHalves/2
MaxStartHalves == 2
\* the module-level random generator has the states 0 .. RngStates - 1
RngStates == 5
\* random.seed() is called with the seeds 1 .. MaxSeed
MaxSeed == 1

(***************************************************************************)
(* Exact rational arithmetic standing for Python float arithmetic.         *)
(***************************************************************************)
Abs(n) == IF n < 0 THEN -n ELSE n

RECURSIVE GCD(_, _)
GCD(a, b) == IF b = 0 THEN a ELSE GCD(b, a % b)

\* the rational n/d in lowest terms, d # 0
Rat(n, d) ==
    LET g == GCD(Abs(n), Abs(d))
        s == IF d < 0 THEN -1 ELSE 1
    IN  IF g = 0 THEN <<0, 0>> ELSE <<(s * n) \div g, Abs(d) \div g>>

QInt(n) == <<n, 1>>
Zero == <<0, 1>>
One == <<1, 1>>

QAdd(a, b) == Rat(a[1] * b[2] + b[1] * a[2], a[2] * b[2])
QSub(a, b) == Rat(a[1] * b[2] - b[1] * a[2], a[2] * b[2])
QMul(a, b) == Rat(a[1] * b[1], a[2] * b[2])
QNeg(a) == <<-a[1], a[2]>>
QLess(a, b) == a[1] * b[2] < b[1] * a[2]

\* mathematical floor of a rational
Floor(q) == q[1] \div q[2]

\* Python int(x) of a float: truncation toward zero
PyInt(q) == IF q[1] >= 0 THEN q[1] \div q[2] ELSE -((-q[1]) \div q[2])

\* the exception value of a failed float operation
ZeroDivisionError == <<"ZeroDivisionError">>
IsError(v) == Len(v) = 1

\* Python a / b on floats: raises ZeroDivisionError when b == 0
TrueDivInf(a, b) == IF b[1] = 0 THEN <<1, 0>> ELSE Rat(a[1] * b[2], a[2] * b[1])
TrueDiv(a, b) == IF b[1] = 0 THEN ZeroDivisionError ELSE Rat(a[1] * b[2], a[2] * b[1])

\* a value is finite when it is a rational with a positive denominator
IsFinite(v) == Len(v) >= 2 /\ v[2] > 0

(***************************************************************************)
(* Values with an irrational part: math.atan2, math.sin, math.cos.  The    *)
(* arguments at which the library returns an exact value (0) are computed. *)
(***************************************************************************)
Gravity == Rat(981, 100)

Atan2(y, x) == IF y = Zero /\ QLess(Zero, x) THEN Zero ELSE <<"atan2", y, x>>
\* c * math.sin(angle) and c * math.cos(angle)
MulSin(c, angle) == IF angle = Zero THEN Zero ELSE <<0, 1, <<"sin", c, angle>>>>
MulCos(c, angle) == IF angle = Zero THEN c ELSE <<0, 1, <<"cos", c, angle>>>>

\* v + q for a value v (rational, or rational plus irrational term) and a rational q
VAdd(v, q) ==
    IF Len(v) = 2 THEN QAdd(v, q)
    ELSE QAdd(<<v[1], v[2]>>, q) \o <<v[3]>>

\* 2 * math.pi * q; the product is exact only for q = 0
TwoPiTimes(q) == IF q = Zero THEN Zero ELSE <<"2pi", q[1], q[2]>>

\* v + w for two values, each a rational or a rational plus an irrational term
VSum(v, w) ==
    IF Len(w) = 2 THEN VAdd(v, w)
    ELSE IF Len(v) = 2 THEN QAdd(v, <<w[1], w[2]>>) \o <<w[3]>>
    ELSE QAdd(<<v[1], v[2]>>, <<w[1], w[2]>>) \o << <<"sum", v[3], w[3]>> >>

(***************************************************************************)
(* IMUSample and the scenario classes.                                     *)
(***************************************************************************)
IMUSample(ts, ax, ay, az, gx, gy, gz, mx, my, mz) ==
    [timestamp |-> ts, accel_x |-> ax, accel_y |-> ay, accel_z |-> az,
     gyro_x |-> gx, gyro_y |-> gy, gyro_z |-> gz,
     mag_x |-> mx, mag_y |-> my, mag_z |-> mz]

Channels == {"accel_x", "accel_y", "accel_z", "gyro_x", "gyro_y", "gyro_z",
             "mag_x", "mag_y", "mag_z"}

\* dataclasses.replace(sample, timestamp=t)
ReplaceTimestamp(sample, t) == [sample EXCEPT !.timestamp = t]

\* the result of a constructor call: the object, or the exception it raised
Built(obj) == [exc |-> "", obj |-> obj]
Raised(e) == [exc |-> e, obj |-> [cls |-> "none"]]
NoObject == [cls |-> "none"]

\* MotionScenario.__init__: the attributes every scenario carries
MotionScenarioInit(duration, sample_rate) ==
    LET dt == TrueDiv(One, sample_rate)
    IN  IF IsError(dt) THEN Raised("ZeroDivisionError")
        ELSE Built([duration |-> duration, sample_rate |-> sample_rate, dt |-> dt])

StationaryScenario(duration, sample_rate) ==
    LET base == MotionScenarioInit(duration, sample_rate)
    IN  IF base.exc # "" THEN base
        ELSE Built([cls |-> "StationaryScenario", duration |-> base.obj.duration,
                    sample_rate |-> base.obj.sample_rate, dt |-> base.obj.dt])

AccelerationScenario(duration, sample_rate, target_speed, accel_rate) ==
    LET base == MotionScenarioInit(duration, sample_rate)
        accel_time == TrueDiv(target_speed, accel_rate)
    IN  IF base.exc # "" THEN base
        ELSE IF IsError(accel_time) THEN Raised("ZeroDivisionError")
        ELSE Built([cls |-> "AccelerationScenario", duration |-> base.obj.duration,
                    sample_rate |-> base.obj.sample_rate, dt |-> base.obj.dt,
                    target_speed |-> target_speed, accel_rate |-> accel_rate,
                    accel_time |-> accel_time])

\* a corner whose lateral acceleration keeps its sign in a right turn
CornerScenarioRightYawOnly(duration, sample_rate, speed, radius, direction) ==
    LET base == MotionScenarioInit(duration, sample_rate)
        lateral_left == TrueDiv(QMul(speed, speed), radius)
        yaw_left == TrueDiv(speed, radius)
    IN  IF base.exc # "" THEN base
        ELSE IF IsError(lateral_left) THEN Raised("ZeroDivisionError")
        ELSE IF IsError(yaw_left) THEN Raised("ZeroDivisionError")
        ELSE LET lateral_g == lateral_left
                 yaw_rate == IF direction = "right"
                             THEN QMul(yaw_left, QInt(-1)) ELSE yaw_left
             IN  Built([cls |-> "CornerScenario", duration |-> base.obj.duration,
                        sample_rate |-> base.obj.sample_rate, dt |-> base.obj.dt,
                        speed |-> speed, radius |-> radius, direction |-> direction,
                        lateral_g |-> lateral_g, yaw_rate |-> yaw_rate,
                        lean_angle |-> Atan2(lateral_g, Gravity)])

CornerScenario(duration, sample_rate, speed, radius, direction) ==
    LET base == MotionScenarioInit(duration, sample_rate)
        lateral_left == TrueDiv(QMul(speed, speed), radius)
        yaw_left == TrueDiv(speed, radius)
    IN  IF base.exc # "" THEN base
        ELSE IF IsError(lateral_left) THEN Raised("ZeroDivisionError")
        ELSE IF IsError(yaw_left) THEN Raised("ZeroDivisionError")
        ELSE LET lateral_g == IF direction = "right"
                              THEN QMul(lateral_left, QInt(-1)) ELSE lateral_left
                 yaw_rate == IF direction = "right"
                             THEN QMul(yaw_left, QInt(-1)) ELSE yaw_left
             IN  Built([cls |-> "CornerScenario", duration |-> base.obj.duration,
                        sample_rate |-> base.obj.sample_rate, dt |-> base.obj.dt,
                        speed |-> speed, radius |-> radius, direction |-> direction,
                        lateral_g |-> lateral_g, yaw_rate |-> yaw_rate,
                        lean_angle |-> Atan2(lateral_g, Gravity)])

BrakingScenario(duration, sample_rate, initial_speed, decel_rate) ==
    LET base == MotionScenarioInit(duration, sample_rate)
        stop_time == TrueDiv(initial_speed, decel_rate)
    IN  IF base.exc # "" THEN base
        ELSE IF IsError(stop_time) THEN Raised("ZeroDivisionError")
        ELSE Built([cls |-> "BrakingScenario", duration |-> base.obj.duration,
                    sample_rate |-> base.obj.sample_rate, dt |-> base.obj.dt,
                    initial_speed |-> initial_speed, decel_rate |-> decel_rate,
                    stop_time |-> stop_time])

\* the base class itself: MotionScenario(duration, sample_rate)
MotionScenario(duration, sample_rate) ==
    LET base == MotionScenarioInit(duration, sample_rate)
    IN  IF base.exc # "" THEN base
        ELSE Built([cls |-> "MotionScenario", duration |-> base.obj.duration,
                    sample_rate |-> base.obj.sample_rate, dt |-> base.obj.dt])

VibrationScenario(duration, sample_rate, base_scenario, vibration_freq, vibration_amplitude) ==
    LET base == MotionScenarioInit(duration, sample_rate)
    IN  IF base.exc # "" THEN base
        ELSE Built([cls |-> "VibrationScenario", duration |-> base.obj.duration,
                    sample_rate |-> base.obj.sample_rate, dt |-> base.obj.dt,
                    base_scenario |-> base_scenario,
                    vibration_freq |-> vibration_freq,
                    vibration_amplitude |-> vibration_amplitude])

\* a rest sample that lacks gravity
StationarySampleNoGravity ==
    IMUSample(Zero, Zero, Zero, Zero, Zero, Zero, Zero,
              QInt(20), Zero, QInt(-40))

\* the sample of a bike at rest
StationarySample ==
    IMUSample(Zero, Zero, Zero, QNeg(Gravity), Zero, Zero, Zero,
              QInt(20), Zero, QInt(-40))

\* AccelerationScenario._compute_sample with the comparison t <= accel_time
AccelerationSampleInclusive(scn, t) ==
    [StationarySample EXCEPT
       !.accel_x = IF ~QLess(scn.accel_time, t) THEN scn.accel_rate ELSE Zero]

\* AccelerationScenario._compute_sample
AccelerationSample(scn, t) ==
    [StationarySample EXCEPT
       !.accel_x = IF QLess(t, scn.accel_time) THEN scn.accel_rate ELSE Zero]

\* BrakingScenario._compute_sample that never reaches the stop
BrakingSampleNoStop(scn, t) ==
    [StationarySample EXCEPT !.accel_x = QNeg(scn.decel_rate)]

\* BrakingScenario._compute_sample
BrakingSample(scn, t) ==
    [StationarySample EXCEPT
       !.accel_x = IF QLess(t, scn.stop_time) THEN QNeg(scn.decel_rate) ELSE Zero]

\* CornerScenario._compute_sample
CornerSample(scn, t) ==
    IMUSample(Zero,
              MulSin(Gravity, scn.lean_angle),
              scn.lateral_g,
              MulCos(QNeg(Gravity), scn.lean_angle),
              Zero, Zero, scn.yaw_rate,
              MulCos(QInt(20), QMul(scn.yaw_rate, t)),
              MulSin(QInt(20), QMul(scn.yaw_rate, t)),
              QInt(-40))

\* vib_z = vibration_amplitude * math.sin(2 * math.pi * vibration_freq * t)
VibZ(scn, t) ==
    MulSin(scn.vibration_amplitude, TwoPiTimes(QMul(scn.vibration_freq, t)))

\* a vibration that is added to all three accelerometer axes
VibrationSampleAllAxes(base, vib_z) ==
    [base EXCEPT !.accel_x = VSum(@, vib_z),
                 !.accel_y = VSum(@, vib_z),
                 !.accel_z = VSum(@, vib_z)]

\* base.accel_z += vib_z; return base
VibrationSample(base, vib_z) == [base EXCEPT !.accel_z = VSum(@, vib_z)]

\* _compute_sample of each class, at local time t
RECURSIVE ComputeSample(_, _)
ComputeSample(scn, t) ==
    CASE scn.cls = "StationaryScenario" -> StationarySample
      [] scn.cls = "AccelerationScenario" -> AccelerationSample(scn, t)
      [] scn.cls = "BrakingScenario" -> BrakingSample(scn, t)
      [] scn.cls = "CornerScenario" -> CornerSample(scn, t)
      [] scn.cls = "VibrationScenario" ->
           VibrationSample(ComputeSample(scn.base_scenario, t), VibZ(scn, t))

\* a VibrationScenario that does not override _compute_sample
ComputeRaisesVibration(scn) ==
    scn.cls \in {"MotionScenario", "VibrationScenario"}

\* _compute_sample raises NotImplementedError: the method of the base class
\* MotionScenario itself, reached directly or through a VibrationScenario
RECURSIVE ComputeRaises(_)
ComputeRaises(scn) ==
    CASE scn.cls = "MotionScenario" -> TRUE
      [] scn.cls = "VibrationScenario" -> ComputeRaises(scn.base_scenario)
      [] OTHER -> FALSE

\* generate() computing the channels at the absolute time t
GenerateAbsoluteTime(scn, start_time) ==
    LET num_samples == PyInt(QMul(scn.duration, scn.sample_rate))
    IN  [k \in 1 .. (IF num_samples > 0 THEN num_samples ELSE 0) |->
            LET t == QAdd(start_time, QMul(QInt(k - 1), scn.dt))
            IN  ReplaceTimestamp(ComputeSample(scn, t), t)]

\* generate() with a loop that runs once too often
GenerateInclusive(scn, start_time) ==
    LET num_samples == PyInt(QMul(scn.duration, scn.sample_rate)) + 1
    IN  [k \in 1 .. (IF num_samples > 0 THEN num_samples ELSE 0) |->
            LET t == QAdd(start_time, QMul(QInt(k - 1), scn.dt))
            IN  ReplaceTimestamp(ComputeSample(scn, QSub(t, start_time)), t)]

\* MotionScenario.generate(start_time)
Generate(scn, start_time) ==
    LET num_samples == PyInt(QMul(scn.duration, scn.sample_rate))
    IN  \* for i in range(num_samples), with k = i + 1 the position in the list
        [k \in 1 .. (IF num_samples > 0 THEN num_samples ELSE 0) |->
            LET t == QAdd(start_time, QMul(QInt(k - 1), scn.dt))
            IN  ReplaceTimestamp(ComputeSample(scn, QSub(t, start_time)), t)]

\* the number of iterations of the loop of generate()
NumSamples(scn) ==
    LET num_samples == PyInt(QMul(scn.duration, scn.sample_rate))
    IN  IF num_samples > 0 THEN num_samples ELSE 0

\* a generate() that leaves the scenario exhausted, as a one-shot iterator would
GenerateCallExhausting(scn, start_time) ==
    IF ComputeRaises(scn)
    THEN [exc |-> IF NumSamples(scn) > 0 THEN "NotImplementedError" ELSE "",
          samples |-> <<>>, scn |-> scn]
    ELSE [exc |-> "", samples |-> Generate(scn, start_time),
          scn |-> [scn EXCEPT !.duration = Zero]]

\* one call scenario.generate(start_time): the exception it raises ("" if
\* none), the list it returns, and the scenario object after the call (the
\* method assigns to no attribute of self; a VibrationScenario adds its
\* vibration to the new IMUSample its base scenario has just returned)
GenerateCall(scn, start_time) ==
    IF ComputeRaises(scn)
    THEN \* the first iteration of the loop raises; without one, [] is returned
         [exc |-> IF NumSamples(scn) > 0 THEN "NotImplementedError" ELSE "",
          samples |-> <<>>, scn |-> scn]
    ELSE [exc |-> "", samples |-> Generate(scn, start_time), scn |-> scn]

(***************************************************************************)
(* The module-level generator of the random library and add_noise.  The    *)
(* library is not part of the repository: its hidden state is a number     *)
(* that every draw advances by one step, and the standard normal draw      *)
(* taken in a state is -1, 0 or 1.                                         *)
(***************************************************************************)
\* the state after one draw
NextRng(state) == (state + 1) % RngStates

\* the state after n draws
RngAfter(state, n) == (state + n) % RngStates

\* the state random.seed(s) sets
SeedState(s) == s % RngStates

\* the standard normal draw taken in a state
GaussZ(state) == (state % 3) - 1

\* a gauss() that ignores sigma
GaussUnitSigma(state, mu, sigma) == QAdd(mu, QInt(GaussZ(state)))

\* random.gauss(mu, sigma) drawn in a state: mu + z * sigma
Gauss(state, mu, sigma) == QAdd(mu, QMul(QInt(GaussZ(state)), sigma))

\* the order in which add_noise draws the noise of the channels
ChannelOrder == <<"accel_x", "accel_y", "accel_z", "gyro_x", "gyro_y", "gyro_z",
                  "mag_x", "mag_y", "mag_z">>

\* the standard deviation add_noise uses for the j-th channel
SigmaOf(j, accel_noise, gyro_noise) ==
    IF j <= 3 THEN accel_noise
    ELSE IF j <= 6 THEN gyro_noise
    ELSE Rat(1, 2)

\* the IMUSample add_noise builds for one sample, drawing from `state` on
NoisySample(sample, accel_noise, gyro_noise, state) ==
    [f \in DOMAIN sample |->
        IF f = "timestamp" THEN sample.timestamp
        ELSE LET j == CHOOSE n \in 1 .. 9 : ChannelOrder[n] = f
             IN  VAdd(sample[f],
                      Gauss(RngAfter(state, j - 1), Zero,
                            SigmaOf(j, accel_noise, gyro_noise)))]

\* add_noise that perturbs the samples of its argument in place
AddNoiseInPlace(samples, accel_noise, gyro_noise, state) ==
    LET noisy_samples ==
            [k \in 1 .. Len(samples) |->
                NoisySample(samples[k], accel_noise, gyro_noise,
                            RngAfter(state, 9 * (k - 1)))]
    IN  [noisy_samples |-> noisy_samples,
         samples |-> noisy_samples,
         state |-> RngAfter(state, 9 * Len(samples))]

\* add_noise(samples, accel_noise, gyro_noise) called with the generator in
\* `state`: the list it returns, its argument after the call, and the
\* generator's state after the call
AddNoise(samples, accel_noise, gyro_noise, state) ==
    LET noisy_samples ==
            [k \in 1 .. Len(samples) |->
                NoisySample(samples[k], accel_noise, gyro_noise,
                            RngAfter(state, 9 * (k - 1)))]
    IN  [noisy_samples |-> noisy_samples,
         samples |-> samples,
         state |-> RngAfter(state, 9 * Len(samples))]

(***************************************************************************)
(* write_csv: the header and one row per sample, every value formatted     *)
(* with a fixed number of decimals.                                        *)
(***************************************************************************)
Pow10(p) == CASE p = 1 -> 10 [] p = 3 -> 1000 [] p = 6 -> 1000000

\* f"{v:.pf}": the value rounded to p decimals, as the integer v * 10^p
\* rounded to the nearest; a value with an irrational part is kept as it is
Fmt(v, p) ==
    IF Len(v) = 2
    THEN LET whole == Floor(v)
             frac == v[1] - whole * v[2]
         IN  [decimals |-> p,
              value |-> whole * Pow10(p)
                        + ((2 * frac * Pow10(p) + v[2]) \div (2 * v[2]))]
    ELSE [decimals |-> p, value |-> v]

CsvHeader == <<"timestamp_ms", "accel_x", "accel_y", "accel_z", "gyro_x", "gyro_y",
               "gyro_z", "mag_x", "mag_y", "mag_z">>

\* the data row of one sample: the timestamp in milliseconds
CsvRow(sample) ==
    <<Fmt(QMul(sample.timestamp, QInt(1000)), 1),
      Fmt(sample.accel_x, 6), Fmt(sample.accel_y, 6), Fmt(sample.accel_z, 6),
      Fmt(sample.gyro_x, 6), Fmt(sample.gyro_y, 6), Fmt(sample.gyro_z, 6),
      Fmt(sample.mag_x, 3), Fmt(sample.mag_y, 3), Fmt(sample.mag_z, 3)>>

\* the file write_csv(samples, filename) leaves
WriteCsv(samples) ==
    [header |-> CsvHeader, rows |-> [k \in 1 .. Len(samples) |-> CsvRow(samples[k])]]

(***************************************************************************)
(* The sequencers.                                                         *)
(***************************************************************************)
\* params.get(key, default)
Get(params, key, default) == IF key \in DOMAIN params THEN params[key] ELSE default

\* if 'duration' not in params: params['duration'] = 5.0
WithDefaultDuration(params) ==
    IF "duration" \in DOMAIN params THEN params
    ELSE [k \in DOMAIN params \cup {"duration"} |->
            IF k = "duration" THEN QInt(5) ELSE params[k]]

\* a chain that rejects an unknown scenario type
BuildScenarioStrict(scenario_type, params, rate) ==
    CASE scenario_type = "stationary" ->
           StationaryScenario(params["duration"], rate)
      [] scenario_type = "acceleration" ->
           AccelerationScenario(params["duration"], rate,
                                Get(params, "target_speed", QInt(10)),
                                Get(params, "accel_rate", QInt(2)))
      [] scenario_type = "cornering" ->
           CornerScenario(params["duration"], rate,
                          Get(params, "speed", QInt(10)),
                          Get(params, "radius", QInt(20)),
                          Get(params, "direction", "left"))
      [] scenario_type = "braking" ->
           BrakingScenario(params["duration"], rate,
                           Get(params, "initial_speed", QInt(10)),
                           Get(params, "decel_rate", Rat(5, 2)))
      [] OTHER ->
           Raised("ValueError")

\* the if/elif chain of generate_custom_ride that creates the scenario
BuildScenario(scenario_type, params, rate) ==
    CASE scenario_type = "stationary" ->
           StationaryScenario(params["duration"], rate)
      [] scenario_type = "acceleration" ->
           AccelerationScenario(params["duration"], rate,
                                Get(params, "target_speed", QInt(10)),
                                Get(params, "accel_rate", QInt(2)))
      [] scenario_type = "cornering" ->
           CornerScenario(params["duration"], rate,
                          Get(params, "speed", QInt(10)),
                          Get(params, "radius", QInt(20)),
                          Get(params, "direction", "left"))
      [] scenario_type = "braking" ->
           BrakingScenario(params["duration"], rate,
                           Get(params, "initial_speed", QInt(10)),
                           Get(params, "decel_rate", Rat(5, 2)))
      [] OTHER ->
           StationaryScenario(params["duration"], rate)

\* a cursor that is never advanced
AdvanceCursorStuck(cursor, duration) == cursor
\* a cursor that is assigned the duration instead of advanced by it
AdvanceCursorAssign(cursor, duration) == duration

\* current_time += params['duration']
AdvanceCursor(cursor, duration) == QAdd(cursor, duration)

\* the nine segments of generate_test_ride, in order
TestRideSegments ==
    << <<"stationary", [duration |-> QInt(5)]>>,
       <<"acceleration", [duration |-> QInt(5), target_speed |-> QInt(10),
                          accel_rate |-> QInt(2)]>>,
       <<"stationary", [duration |-> QInt(10)]>>,
       <<"cornering", [duration |-> QInt(8), speed |-> QInt(10),
                       radius |-> QInt(20), direction |-> "left"]>>,
       <<"stationary", [duration |-> QInt(5)]>>,
       <<"cornering", [duration |-> QInt(8), speed |-> QInt(10),
                       radius |-> QInt(25), direction |-> "right"]>>,
       <<"stationary", [duration |-> QInt(5)]>>,
       <<"braking", [duration |-> QInt(4), initial_speed |-> QInt(10),
                     decel_rate |-> Rat(5, 2)]>>,
       <<"stationary", [duration |-> QInt(5)]>> >>

(***************************************************************************)
(* The command line: get_preset_scenarios and the part of main that        *)
(* chooses the ride.                                                       *)
(***************************************************************************)
\* Python None
None == <<"None">>

PresetNames == {"short", "medium", "long", "aggressive", "endurance"}

Seg(type, duration) == <<type, [duration |-> QInt(duration)]>>
AccelSeg(duration, target_speed, accel_rate) ==
    <<"acceleration", [duration |-> QInt(duration),
                       target_speed |-> QInt(target_speed),
                       accel_rate |-> accel_rate]>>
CornerSeg(duration, speed, radius, direction) ==
    <<"cornering", [duration |-> QInt(duration), speed |-> QInt(speed),
                    radius |-> QInt(radius), direction |-> direction]>>
BrakeSeg(duration, initial_speed, decel_rate) ==
    <<"braking", [duration |-> QInt(duration),
                  initial_speed |-> QInt(initial_speed),
                  decel_rate |-> decel_rate]>>

\* the scenario lists of the five presets
PresetTable(preset) ==
    CASE preset = "short" ->
           << Seg("stationary", 2), AccelSeg(3, 8, Rat(5, 2)),
              CornerSeg(4, 8, 15, "left"), BrakeSeg(3, 8, Rat(5, 2)),
              Seg("stationary", 2) >>
      [] preset = "medium" ->
           << Seg("stationary", 5), AccelSeg(8, 12, Rat(3, 2)),
              Seg("stationary", 10), CornerSeg(8, 12, 20, "left"),
              Seg("stationary", 5), CornerSeg(8, 12, 25, "right"),
              Seg("stationary", 5), BrakeSeg(6, 12, QInt(2)),
              Seg("stationary", 5) >>
      [] preset = "long" ->
           << Seg("stationary", 10), AccelSeg(15, 15, QInt(1)),
              Seg("stationary", 30), CornerSeg(12, 15, 30, "left"),
              Seg("stationary", 20), CornerSeg(12, 15, 25, "right"),
              Seg("stationary", 20), CornerSeg(10, 15, 20, "left"),
              Seg("stationary", 15), BrakeSeg(10, 15, Rat(3, 2)),
              Seg("stationary", 10) >>
      [] preset = "aggressive" ->
           << Seg("stationary", 2), AccelSeg(4, 15, Rat(7, 2)),
              CornerSeg(6, 15, 12, "left"), CornerSeg(6, 15, 12, "right"),
              CornerSeg(6, 15, 10, "left"), BrakeSeg(4, 15, Rat(7, 2)),
              Seg("stationary", 2) >>
      [] preset = "endurance" ->
           << Seg("stationary", 5), AccelSeg(20, 8, Rat(2, 5)),
              Seg("stationary", 60), CornerSeg(15, 8, 40, "left"),
              Seg("stationary", 30), CornerSeg(15, 8, 35, "right"),
              Seg("stationary", 30), BrakeSeg(20, 8, Rat(2, 5)),
              Seg("stationary", 5) >>

\* sum(params['duration'] for _, params in scenarios) over the first k entries
RECURSIVE CurrentTotal(_, _)
CurrentTotal(scns, k) ==
    IF k = 0 THEN Zero ELSE QAdd(CurrentTotal(scns, k - 1), scns[k][2]["duration"])

\* scale_factor = total_duration / current_total;
\* params['duration'] *= scale_factor for every entry
ScaleDurations(scns, total_duration) ==
    LET scale_factor == TrueDiv(total_duration, CurrentTotal(scns, Len(scns)))
    IN  IF IsError(scale_factor) THEN [exc |-> "ZeroDivisionError", scenarios |-> <<>>]
        ELSE [exc |-> "",
              scenarios |->
                 [k \in 1 .. Len(scns) |->
                     <<scns[k][1],
                       [scns[k][2] EXCEPT !["duration"] = QMul(@, scale_factor)]>>]]

\* get_preset_scenarios(preset, total_duration); a name that is no preset
\* gets the list the call for 'medium' returns, which is then scaled again
RECURSIVE GetPresetScenarios(_, _)
GetPresetScenarios(preset, total_duration) ==
    LET chosen == IF preset \in PresetNames
                  THEN [exc |-> "", scenarios |-> PresetTable(preset)]
                  ELSE GetPresetScenarios("medium", total_duration)
    IN  IF chosen.exc # "" \/ total_duration = None THEN chosen
        ELSE ScaleDurations(chosen.scenarios, total_duration)

\* the scenario list main builds from --scenarios
ListedScenarios(types, duration) ==
    [k \in 1 .. Len(types) |->
        <<types[k],
          [duration |-> IF duration = None THEN QInt(5)
                        ELSE TrueDiv(duration, QInt(Len(types)))]>>]

\* "Determine scenarios to generate" of main: the list handed to
\* generate_custom_ride, or None when generate_test_ride is to be called
MainScenarios(a) ==
    IF a.preset # "" THEN GetPresetScenarios(a.preset, a.duration)
    ELSE IF a.scenarios # <<>>
         THEN [exc |-> "", scenarios |-> ListedScenarios(a.scenarios, a.duration)]
         ELSE [exc |-> "", scenarios |-> None]

(***************************************************************************)
(* Inputs of the model.                                                    *)
(***************************************************************************)
DurChoices == {Rat(h, 2) : h \in -1 .. MaxDurHalves}
Rates == {QInt(r) : r \in -1 .. MaxRate}
TestRideRates == Rates \cup {QInt(100)}
StartChoices == {Rat(h, 2) : h \in -1 .. MaxStartHalves}

NoParams == [k \in {} |-> Zero]

\* the (scenario_type, params) pairs a caller passes
ScenarioChoices ==
    {<<"stationary", [duration |-> d]>> : d \in DurChoices}
    \cup {<<"stationary", NoParams>>,
          <<"acceleration", [duration |-> QInt(1), target_speed |-> QInt(1),
                             accel_rate |-> QInt(2)]>>,
          <<"cornering", [duration |-> Rat(3, 2), direction |-> "right"]>>,
          <<"cornering", [duration |-> QInt(1), radius |-> Zero]>>,
          <<"braking", [duration |-> Rat(1, 2), initial_speed |-> QInt(1),
                        decel_rate |-> QInt(1)]>>,
          <<"cruise", [duration |-> QInt(1)]>>}

\* an entry that asks for a corner of radius 0
IsZeroRadiusCorner(entry) ==
    /\ entry[1] = "cornering"
    /\ "radius" \in DOMAIN entry[2]
    /\ entry[2]["radius"] = Zero

ScenarioLists == UNION {[1 .. n -> ScenarioChoices] : n \in 0 .. MaxScenarios}

KnownTypes == {"stationary", "acceleration", "cornering", "braking"}

\* the (scenario_type, params) pairs of direct constructor calls
ConstructChoices ==
    ScenarioChoices
    \cup {<<"braking", [duration |-> Rat(3, 2), initial_speed |-> QInt(1),
                        decel_rate |-> QInt(2)]>>,
          <<"acceleration", [duration |-> Rat(11, 2)]>>}

\* the (duration, sample_rate, vibration_freq, vibration_amplitude) of a
\* VibrationScenario; 15.0 and 2.0 are the defaults of the constructor
VibrationChoices ==
    {<<QInt(1), r, fa[1], fa[2]>> :
        r \in {QInt(-1), Zero, QInt(2)},
        fa \in {<<QInt(15), QInt(2)>>, <<QInt(1), Rat(1, 2)>>}}

\* how many VibrationScenario objects wrap one another
MaxWrap == 1
\* how many generate() calls a caller makes on one object
MaxGenerateCalls == 2

RECURSIVE WrapDepth(_)
WrapDepth(scn) ==
    IF scn.cls = "VibrationScenario" THEN 1 + WrapDepth(scn.base_scenario) ELSE 0

\* the values of --duration: absent, or a total in seconds
MainDurations == {None, Zero, Rat(1, 2), QInt(7)}

\* the parsed command lines; `parsed` tells them from the value before main runs
MainArgs ==
    {[parsed |-> TRUE, preset |-> p, scenarios |-> <<>>, duration |-> d,
      sample_rate |-> r, no_noise |-> nn, noise |-> Rat(1, 20)] :
        p \in PresetNames \cup {""}, d \in MainDurations, r \in Rates,
        nn \in BOOLEAN}
    \cup
    {[parsed |-> TRUE, preset |-> "", scenarios |-> l, duration |-> d,
      sample_rate |-> r, no_noise |-> nn, noise |-> Rat(1, 20)] :
        l \in UNION {[1 .. n -> KnownTypes] : n \in 1 .. MaxScenarios},
        d \in MainDurations, r \in Rates, nn \in BOOLEAN}

NoArgs == [parsed |-> FALSE, preset |-> "", scenarios |-> <<>>, duration |-> None,
           sample_rate |-> Zero, no_noise |-> FALSE, noise |-> Zero]

\* what main has produced: the rows of the CSV file and the duration it
\* reports, None while there is none
NoOutput == [csv |-> None, duration |-> None]

\* fix_stuck_files has not started
NoFix == [pc |-> "idle", stuck_files |-> <<>>, j |-> 0]

\* no status tool has run
NoReport == [tool |-> "", lines |-> <<>>]

(***************************************************************************)
(* State.                                                                  *)
(***************************************************************************)
VARIABLES
    pc,            \* where the program is: start, custom, test, constructed,
                   \* generated, returned, raised
    call,          \* the function the caller invoked, "" before the call
    scenarios,     \* the list a sequencer works through
    sample_rate,   \* the sample rate of the call
    i,             \* number of scenarios the sequencer has finished
    current_time,  \* the sequencer's time cursor
    all_samples,   \* the sequencer's output so far
    scenario,      \* the scenario object constructed last
    samples,       \* the list the last generate() returned
    start_times,   \* history: the start_time argument of every generate() call
                   \* that returned
    result,        \* the stream returned to the caller
    exc,           \* the exception that ended the call, "" if none
    rng,           \* the state of the module-level random generator
    seed,          \* history: the argument of the last random.seed(), 0 if none
    fresh,         \* history: no add_noise has drawn since the last random.seed()
    runs,          \* history: the add_noise calls made, in order
    args,          \* the parsed command line of main, NoArgs outside main
    output,        \* the CSV file main wrote and the duration it reported
    files,         \* the table imu_data_files: the record of every file id
    fix,           \* fix_stuck_files: where it is, the files it selected
    report         \* what the status tool that ran last printed

rideVars == <<pc, call, scenarios, sample_rate, i, current_time, all_samples,
              scenario, samples, start_times, exc, args, output>>
toolVars == <<files, fix, report>>
noiseVars == <<rng, seed, fresh, runs>>
vars == <<rideVars, result, noiseVars, toolVars>>

Init ==
    /\ pc = "start"
    /\ call = ""
    /\ scenarios = <<>>
    /\ sample_rate = QInt(100)
    /\ i = 0
    /\ current_time = Zero
    /\ all_samples = <<>>
    /\ scenario = NoObject
    /\ samples = <<>>
    /\ start_times = <<>>
    /\ result = <<>>
    /\ exc = ""
    /\ rng \in 0 .. (RngStates - 1)
    /\ seed = 0
    /\ fresh = FALSE
    /\ runs = <<>>
    /\ args = NoArgs
    /\ output = NoOutput
    /\ files = <<>>
    /\ fix = NoFix
    /\ report = NoReport

\* a caller invokes generate_custom_ride(scns, rate)
CallCustomRide ==
    /\ UNCHANGED <<noiseVars, args, output, toolVars>>
    /\ pc = "start"
    /\ \E scns \in ScenarioLists, rate \in Rates :
          /\ scenarios' = scns
          /\ sample_rate' = rate
    /\ pc' = "custom"
    /\ call' = "generate_custom_ride"
    /\ UNCHANGED <<i, current_time, all_samples, scenario, samples,
                   start_times, result, exc>>

\* one iteration of the loop of generate_custom_ride
CustomRideStep ==
    /\ UNCHANGED <<noiseVars, args, output, toolVars>>
    /\ pc = "custom"
    /\ i < Len(scenarios)
    /\ LET scenario_type == scenarios[i + 1][1]
           params == WithDefaultDuration(scenarios[i + 1][2])
           built == BuildScenario(scenario_type, params, sample_rate)
       IN  /\ scenarios' = [scenarios EXCEPT ![i + 1] = <<scenario_type, params>>]
           /\ IF built.exc # ""
              THEN /\ pc' = "raised"
                   /\ exc' = built.exc
                   /\ UNCHANGED <<i, current_time, all_samples, scenario,
                                  samples, start_times>>
              ELSE /\ scenario' = built.obj
                   /\ samples' = Generate(built.obj, current_time)
                   /\ start_times' = Append(start_times, current_time)
                   /\ all_samples' = all_samples \o samples'
                   /\ current_time' = AdvanceCursor(current_time, params["duration"])
                   /\ i' = i + 1
                   /\ UNCHANGED <<pc, exc>>
    /\ UNCHANGED <<call, sample_rate, result>>

\* return all_samples
CustomRideReturn ==
    /\ UNCHANGED <<noiseVars, args, output, toolVars>>
    /\ pc = "custom"
    /\ i = Len(scenarios)
    /\ result' = all_samples
    /\ pc' = "returned"
    /\ UNCHANGED <<call, scenarios, sample_rate, i, current_time, all_samples,
                   scenario, samples, start_times, exc>>

\* a caller invokes generate_test_ride(rate)
CallTestRide ==
    /\ UNCHANGED <<noiseVars, args, output, toolVars>>
    /\ pc = "start"
    /\ \E rate \in TestRideRates : sample_rate' = rate
    /\ scenarios' = TestRideSegments
    /\ pc' = "test"
    /\ call' = "generate_test_ride"
    /\ UNCHANGED <<i, current_time, all_samples, scenario, samples,
                   start_times, result, exc>>

\* one numbered block of generate_test_ride; the ninth does not advance the cursor
TestRideStep ==
    /\ UNCHANGED <<noiseVars, args, output, toolVars>>
    /\ pc = "test"
    /\ i < Len(scenarios)
    /\ LET scenario_type == scenarios[i + 1][1]
           params == scenarios[i + 1][2]
           built == BuildScenario(scenario_type, params, sample_rate)
       IN  IF built.exc # ""
           THEN /\ pc' = "raised"
                /\ exc' = built.exc
                /\ UNCHANGED <<i, current_time, all_samples, scenario,
                               samples, start_times>>
           ELSE /\ scenario' = built.obj
                /\ samples' = Generate(built.obj, current_time)
                /\ start_times' = Append(start_times, current_time)
                /\ all_samples' = all_samples \o samples'
                /\ current_time' = IF i + 1 < Len(scenarios)
                                   THEN AdvanceCursor(current_time, params["duration"])
                                   ELSE current_time
                /\ i' = i + 1
                /\ UNCHANGED <<pc, exc>>
    /\ UNCHANGED <<call, scenarios, sample_rate, result>>

\* return all_samples
TestRideReturn ==
    /\ UNCHANGED <<noiseVars, args, output, toolVars>>
    /\ pc = "test"
    /\ i = Len(scenarios)
    /\ result' = all_samples
    /\ pc' = "returned"
    /\ UNCHANGED <<call, scenarios, sample_rate, i, current_time, all_samples,
                   scenario, samples, start_times, exc>>

\* a caller constructs one scenario object directly
Construct ==
    /\ UNCHANGED <<noiseVars, args, output, toolVars>>
    /\ pc = "start"
    /\ \E c \in ConstructChoices, rate \in Rates :
          /\ c[1] \in KnownTypes
          /\ "duration" \in DOMAIN c[2]
          /\ sample_rate' = rate
          /\ LET built == BuildScenario(c[1], c[2], rate)
             IN  IF built.exc # ""
                 THEN pc' = "raised" /\ exc' = built.exc /\ scenario' = scenario
                 ELSE pc' = "constructed" /\ exc' = exc /\ scenario' = built.obj
    /\ call' = "constructor"
    /\ UNCHANGED <<scenarios, i, current_time, all_samples, samples,
                   start_times, result>>

\* a caller constructs an object of the base class MotionScenario
ConstructBase ==
    /\ UNCHANGED <<noiseVars, args, output, toolVars>>
    /\ pc = "start"
    /\ \E d \in DurChoices, rate \in Rates :
          /\ sample_rate' = rate
          /\ LET built == MotionScenario(d, rate)
             IN  IF built.exc # ""
                 THEN pc' = "raised" /\ exc' = built.exc /\ scenario' = scenario
                 ELSE pc' = "constructed" /\ exc' = exc /\ scenario' = built.obj
    /\ call' = "constructor"
    /\ UNCHANGED <<scenarios, i, current_time, all_samples, samples,
                   start_times, result>>

\* the caller wraps the scenario object in a VibrationScenario
ConstructVibration ==
    /\ UNCHANGED <<noiseVars, args, output, toolVars>>
    /\ pc = "constructed"
    /\ WrapDepth(scenario) < MaxWrap
    /\ \E v \in VibrationChoices :
          LET built == VibrationScenario(v[1], v[2], scenario, v[3], v[4])
          IN  /\ sample_rate' = v[2]
              /\ IF built.exc # ""
                 THEN pc' = "raised" /\ exc' = built.exc /\ scenario' = scenario
                 ELSE pc' = "constructed" /\ exc' = exc /\ scenario' = built.obj
    /\ UNCHANGED <<call, scenarios, i, current_time, all_samples, samples,
                   start_times, result>>

\* the caller calls scenario.generate(t0), on a new object or once more on
\* an object that has generated before
DirectGenerate ==
    /\ UNCHANGED <<noiseVars, args, output, toolVars>>
    /\ pc \in {"constructed", "generated"}
    /\ Len(start_times) < MaxGenerateCalls
    /\ \E t0 \in StartChoices :
          LET r == GenerateCall(scenario, t0)
          IN  /\ scenario' = r.scn
              /\ IF r.exc # ""
                 THEN /\ pc' = "raised"
                      /\ exc' = r.exc
                      /\ UNCHANGED <<samples, start_times, result>>
                 ELSE /\ pc' = "generated"
                      /\ samples' = r.samples
                      /\ start_times' = Append(start_times, t0)
                      /\ result' = r.samples
                      /\ exc' = exc
    /\ call' = "generate"
    /\ UNCHANGED <<scenarios, sample_rate, i, current_time, all_samples>>

\* main parses the command line and determines the scenarios to generate;
\* it then calls generate_custom_ride with the list, or generate_test_ride
MainSelect ==
    /\ UNCHANGED <<noiseVars, output, toolVars>>
    /\ pc = "start"
    /\ \E a \in MainArgs :
          LET chosen == MainScenarios(a)
          IN  /\ args' = a
              /\ sample_rate' = a.sample_rate
              /\ IF chosen.exc # ""
                 THEN /\ pc' = "raised"
                      /\ exc' = chosen.exc
                      /\ UNCHANGED <<call, scenarios>>
                 ELSE /\ exc' = exc
                      /\ IF chosen.scenarios = None
                         THEN /\ pc' = "test"
                              /\ call' = "generate_test_ride"
                              /\ scenarios' = TestRideSegments
                         ELSE /\ pc' = "custom"
                              /\ call' = "generate_custom_ride"
                              /\ scenarios' = chosen.scenarios
    /\ UNCHANGED <<i, current_time, all_samples, scenario, samples,
                   start_times, result>>

\* the rest of main once the ride is generated: add noise unless disabled,
\* write the CSV, then report samples[-1].timestamp as the duration
MainFinish ==
    /\ pc = "returned"
    /\ args.parsed
    /\ LET noisy == IF args.no_noise
                    THEN [noisy_samples |-> result, state |-> rng]
                    ELSE AddNoise(result, args.noise,
                                  TrueDiv(args.noise, QInt(5)), rng)
           out == noisy.noisy_samples
       IN  /\ result' = out
           /\ rng' = noisy.state
           /\ IF Len(out) = 0
              THEN \* samples[-1] of an empty list, after the file is written
                   /\ output' = [csv |-> WriteCsv(out), duration |-> None]
                   /\ pc' = "raised"
                   /\ exc' = "IndexError"
              ELSE /\ output' = [csv |-> WriteCsv(out),
                                 duration |-> out[Len(out)].timestamp]
                   /\ pc' = "done"
                   /\ exc' = exc
    /\ call' = "main"
    /\ UNCHANGED <<scenarios, sample_rate, i, current_time, all_samples,
                   scenario, samples, start_times, args, seed, fresh, runs,
                   toolVars>>

Next ==
    \/ CallCustomRide
    \/ CustomRideStep
    \/ CustomRideReturn
    \/ CallTestRide
    \/ TestRideStep
    \/ TestRideReturn
    \/ Construct
    \/ ConstructBase
    \/ ConstructVibration
    \/ DirectGenerate
    \/ MainSelect
    \/ MainFinish

Spec == Init /\ [][Next]_vars

(***************************************************************************)
(* The noise injector applied to a generated stream.                       *)
(***************************************************************************)
\* the (accel_noise, gyro_noise) pairs a caller passes
SigmaChoices == {<<Zero, Zero>>, <<Rat(1, 20), Rat(1, 100)>>}

\* the streams handed to add_noise: what the scenarios the callers pass
\* generate at a positive rate from time 0
NoiseInputs ==
    {Generate(BuildScenario(c[1], WithDefaultDuration(c[2]), QInt(r)).obj, Zero) :
        c \in {x \in ScenarioChoices : ~IsZeroRadiusCorner(x)}, r \in 1 .. MaxRate}

InitNoise ==
    /\ pc = "generated"
    /\ call = "add_noise"
    /\ scenarios = <<>>
    /\ sample_rate = QInt(100)
    /\ i = 0
    /\ current_time = Zero
    /\ all_samples = <<>>
    /\ scenario = NoObject
    /\ samples = <<>>
    /\ start_times = <<>>
    /\ result \in NoiseInputs
    /\ exc = ""
    /\ rng \in 0 .. (RngStates - 1)
    /\ seed = 0
    /\ fresh = FALSE
    /\ runs = <<>>
    /\ args = NoArgs
    /\ output = NoOutput
    /\ files = <<>>
    /\ fix = NoFix
    /\ report = NoReport

\* the process calls random.seed(s)
Seed ==
    /\ pc = "generated"
    /\ \E s \in 1 .. MaxSeed :
          /\ rng' = SeedState(s)
          /\ seed' = s
    /\ fresh' = TRUE
    /\ UNCHANGED <<rideVars, result, runs, toolVars>>

\* the process draws a random number for another purpose
OtherDraw ==
    /\ pc = "generated"
    /\ Len(runs) < 2
    /\ rng' = NextRng(rng)
    /\ UNCHANGED <<rideVars, result, seed, fresh, runs, toolVars>>

\* the caller runs add_noise on the stream; two runs are recorded
RunAddNoise ==
    /\ pc = "generated"
    /\ Len(runs) < 2
    /\ \E sigma \in SigmaChoices :
          LET out == AddNoise(result, sigma[1], sigma[2], rng)
          IN  /\ runs' = Append(runs, [input |-> result,
                                       accel_noise |-> sigma[1],
                                       gyro_noise |-> sigma[2],
                                       seed |-> seed,
                                       fresh |-> fresh,
                                       output |-> out.noisy_samples,
                                       input_after |-> out.samples])
              /\ result' = out.samples
              /\ rng' = out.state
    /\ fresh' = FALSE
    /\ UNCHANGED <<rideVars, seed, toolVars>>

NextNoise ==
    \/ Seed
    \/ OtherDraw
    \/ RunAddNoise

SpecNoise == InitNoise /\ [][NextNoise]_vars

(***************************************************************************)
(* The file-status tools (debug_file_status.py, check_file_status.py,      *)
(* debug_production.py) working on the table imu_data_files, next to the   *)
(* processing pipeline that moves a file uploaded -> parsing -> ready.     *)
(* A file record here is its status, its error_message ("" for null) and   *)
(* whether it was uploaded more than five minutes ago.                     *)
(***************************************************************************)
\* the number of file records in the table
MaxFiles == 2

FileIds == 1 .. MaxFiles

\* the tables the tools find
FileTables ==
    [FileIds -> [status : {"uploaded", "parsing", "ready"},
                 error_message : {""},
                 old : BOOLEAN]]

\* the orders in which a query may return a set of rows
Orderings(ids) ==
    {q \in [1 .. Cardinality(ids) -> ids] :
        \A a, b \in 1 .. Cardinality(ids) : q[a] = q[b] => a = b}

\* the filter of fix_stuck_files: (status.eq.uploaded,status.eq.parsing)
\* and uploaded_at before five minutes ago
IsStuck(file) == file.status \in {"uploaded", "parsing"} /\ file.old

\* update_data of fix_stuck_files
TimeoutMessage == "Processing timeout - marked as failed by debug script"
UpdateData(file) == [file EXCEPT !.status = "failed", !.error_message = TimeoutMessage]

\* the status_emoji table of check_file_status and check_recent_uploads
ErrorEmoji(status) ==
    CASE status = "ready" -> "check"
      [] status = "parsing" -> "arrows"
      [] status = "uploaded" -> "hourglass"
      [] status = "error" -> "cross"
      [] OTHER -> "question"

\* the status_emoji table of check_recent_files
FailedEmoji(status) ==
    CASE status = "ready" -> "check"
      [] status = "parsing" -> "arrows"
      [] status = "uploaded" -> "hourglass"
      [] status = "failed" -> "cross"
      [] OTHER -> "question"

InitFiles ==
    /\ pc = "tools"
    /\ call = ""
    /\ scenarios = <<>>
    /\ sample_rate = QInt(100)
    /\ i = 0
    /\ current_time = Zero
    /\ all_samples = <<>>
    /\ scenario = NoObject
    /\ samples = <<>>
    /\ start_times = <<>>
    /\ result = <<>>
    /\ exc = ""
    /\ rng = 0
    /\ seed = 0
    /\ fresh = FALSE
    /\ runs = <<>>
    /\ args = NoArgs
    /\ output = NoOutput
    /\ files \in FileTables
    /\ fix = NoFix
    /\ report = NoReport

\* fix_stuck_files up to the answer of its query: the request fails, or it
\* returns the stuck files in some order
FixQuery ==
    /\ fix.pc = "idle"
    /\ \/ fix' = [fix EXCEPT !.pc = "done"]
       \/ \E q \in Orderings({f \in FileIds : IsStuck(files[f])}) :
             fix' = [pc |-> IF q = <<>> THEN "done" ELSE "updating",
                     stuck_files |-> q, j |-> 0]
    /\ UNCHANGED <<rideVars, result, noiseVars, files, report>>

\* one iteration of the loop of fix_stuck_files: the PATCH of one file by
\* its id, which the server applies (200), refuses, or which fails
FixUpdate ==
    /\ fix.pc = "updating"
    /\ LET id == fix.stuck_files[fix.j + 1]
           last == fix.j + 1 = Len(fix.stuck_files)
       IN  \/ /\ files' = [files EXCEPT ![id] = UpdateData(@)]
              /\ fix' = [fix EXCEPT !.j = @ + 1,
                                    !.pc = IF last THEN "done" ELSE "updating"]
           \/ /\ files' = files
              /\ fix' = [fix EXCEPT !.j = @ + 1,
                                    !.pc = IF last THEN "done" ELSE "updating"]
           \/ /\ files' = files
              /\ fix' = [fix EXCEPT !.pc = "done"]
    /\ UNCHANGED <<rideVars, result, noiseVars, report>>

\* the processing pipeline takes one file one stage further
PipelineStep ==
    /\ \E f \in FileIds :
          /\ files[f].status \in {"uploaded", "parsing"}
          /\ files' = [files EXCEPT ![f].status =
                          IF @ = "uploaded" THEN "parsing" ELSE "ready"]
    /\ UNCHANGED <<rideVars, result, noiseVars, fix, report>>

\* check_file_status: per file the emoji and whether the Error line is printed
RunCheckFileStatus ==
    /\ report' =
          [tool |-> "check_file_status",
           lines |-> [f \in FileIds |->
              [status |-> files[f].status,
               emoji |-> ErrorEmoji(files[f].status),
               error_shown |-> files[f].status = "error"
                               /\ files[f].error_message # "",
               listed |-> FALSE]]]
    /\ UNCHANGED <<rideVars, result, noiseVars, files, fix>>

\* debug_production: check_recent_uploads, then suggest_fixes on its result;
\* `listed` tells whether suggest_fixes lists the file among those with errors
RunDebugProduction ==
    /\ report' =
          [tool |-> "debug_production",
           lines |-> [f \in FileIds |->
              [status |-> files[f].status,
               emoji |-> ErrorEmoji(files[f].status),
               error_shown |-> files[f].status = "error"
                               /\ files[f].error_message # "",
               listed |-> files[f].status = "error"]]]
    /\ UNCHANGED <<rideVars, result, noiseVars, files, fix>>

\* check_recent_files of debug_file_status
RunCheckRecentFiles ==
    /\ report' =
          [tool |-> "check_recent_files",
           lines |-> [f \in FileIds |->
              [status |-> files[f].status,
               emoji |-> FailedEmoji(files[f].status),
               error_shown |-> files[f].status = "failed"
                               /\ files[f].error_message # "",
               listed |-> IsStuck(files[f])]]]
    /\ UNCHANGED <<rideVars, result, noiseVars, files, fix>>

NextFiles ==
    \/ FixQuery
    \/ FixUpdate
    \/ PipelineStep
    \/ RunCheckFileStatus
    \/ RunDebugProduction
    \/ RunCheckRecentFiles

SpecFiles == InitFiles /\ [][NextFiles]_vars

(***************************************************************************)
(* Helpers of the properties.                                              *)
(***************************************************************************)
\* the duration of the k-th entry of a scenario list
DurationOf(scns, k) == scns[k][2]["duration"]

\* the sum of the durations of the first k entries
RECURSIVE SumDurations(_, _)
SumDurations(scns, k) ==
    IF k = 0 THEN Zero ELSE QAdd(SumDurations(scns, k - 1), DurationOf(scns, k))

\* the sum of floor(duration * rate) over the first k entries
RECURSIVE SumFloors(_, _, _)
SumFloors(scns, k, rate) ==
    IF k = 0 THEN 0
    ELSE SumFloors(scns, k - 1, rate) + Floor(QMul(DurationOf(scns, k), rate))

InRide == call \in {"generate_custom_ride", "generate_test_ride"}

\* every entry the sequencer has been given has a positive duration
\* (an entry without a duration gets the default, which is positive)
AllDurationsPositive ==
    \A k \in 1 .. Len(scenarios) :
        "duration" \in DOMAIN scenarios[k][2] => QLess(Zero, DurationOf(scenarios, k))

\* every entry's duration is a whole number of sample periods
AllDurationsWholePeriods ==
    \A k \in 1 .. Len(scenarios) :
        "duration" \in DOMAIN scenarios[k][2]
            => QMul(DurationOf(scenarios, k), sample_rate)[2] = 1

\* a generate() call has returned `samples` for `scenario`
HasGenerated == start_times # <<>> /\ scenario # NoObject

LastStart == start_times[Len(start_times)]

C2_SampleCountIsSumOfFloors ==
    (InRide /\ pc = "returned")
    => /\ Len(result) = SumFloors(scenarios, Len(scenarios), sample_rate)
       /\ (call = "generate_test_ride" /\ sample_rate = QInt(100))
             => Len(result) = 5500

(***************************************************************************)
(* C3 as stated: in a ride of scenarios with positive durations the whole  *)
(* stream is one arithmetic progression with step dt = 1/sample_rate.      *)
(***************************************************************************)
ContiguousStream(stream) ==
    \A k \in 1 .. (Len(stream) - 1) :
        stream[k + 1].timestamp
            = QAdd(stream[k].timestamp, TrueDiv(One, sample_rate))

C3_ContiguousForPositiveDurations ==
    (InRide /\ AllDurationsPositive) => ContiguousStream(all_samples)

(***************************************************************************)
(* C3 amended: in a ride of scenarios with positive durations each of      *)
(* which is a whole number of sample periods (duration * sample_rate is an *)
(* integer), the first timestamp of a scenario's samples is the last       *)
(* timestamp of the previous scenario's samples plus dt, and the whole     *)
(* stream is one arithmetic progression with step dt.                      *)
(***************************************************************************)
C3_ContiguousForWholePeriods ==
    (InRide /\ AllDurationsPositive /\ AllDurationsWholePeriods)
    => /\ ContiguousStream(all_samples)
       /\ (pc = "returned" => ContiguousStream(result))

\* a returned custom ride of two scenarios that both produced samples
C3_Witness ==
    /\ call = "generate_custom_ride"
    /\ pc = "returned"
    /\ AllDurationsPositive /\ AllDurationsWholePeriods
    /\ Len(scenarios) = 2
    /\ Len(samples) >= 1
    /\ Len(result) > Len(samples)

(***************************************************************************)
(* C4: in a ride of scenarios with positive durations the timestamps of    *)
(* the stream are strictly increasing, also across scenario boundaries.    *)
(***************************************************************************)
StrictlyIncreasing(stream) ==
    \A k \in 1 .. (Len(stream) - 1) :
        QLess(stream[k].timestamp, stream[k + 1].timestamp)

C4_StrictlyIncreasing ==
    (InRide /\ AllDurationsPositive)
    => /\ StrictlyIncreasing(all_samples)
       /\ (pc = "returned" => StrictlyIncreasing(result))

\* a returned custom ride whose first scenario's duration is not a whole
\* number of periods, so the boundary has a gap larger than dt
C4_Witness ==
    /\ call = "generate_custom_ride"
    /\ pc = "returned"
    /\ AllDurationsPositive
    /\ ~AllDurationsWholePeriods
    /\ Len(scenarios) = 2
    /\ Len(samples) >= 1
    /\ Len(result) > Len(samples)

(***************************************************************************)
(* C5 as stated: the cursor starts at 0; after k scenarios it is the sum   *)
(* of their durations; scenario k+1 is generated at that sum; the final    *)
(* cursor is the sum of all durations.                                     *)
(***************************************************************************)
StartsAreSums ==
    \A k \in 1 .. Len(start_times) :
        start_times[k] = SumDurations(scenarios, k - 1)

C5_CursorIsSumOfDurations ==
    InRide => /\ current_time = SumDurations(scenarios, i)
              /\ StartsAreSums

(***************************************************************************)
(* C5 amended: the cursor starts at 0 and scenario k+1 is generated at the *)
(* sum of the durations of the first k scenarios, whether or not they      *)
(* produced samples.  In generate_custom_ride the cursor after k scenarios *)
(* is the sum of their durations, the final cursor the sum of all.         *)
(* generate_test_ride does not advance the cursor after its ninth and last *)
(* segment: its cursor after k < 9 segments is the sum of their durations  *)
(* and its final cursor the sum of the first eight.                        *)
(***************************************************************************)
C5_CursorIsSumExceptLastTestSegment ==
    InRide => /\ StartsAreSums
              /\ call = "generate_custom_ride"
                    => current_time = SumDurations(scenarios, i)
              /\ call = "generate_test_ride"
                    => current_time
                         = SumDurations(scenarios,
                                        IF i = Len(scenarios) THEN i - 1 ELSE i)

\* a custom ride whose first scenario produced no sample and whose second
\* scenario was generated at the first one's duration
C5_Witness ==
    /\ call = "generate_custom_ride"
    /\ pc = "returned"
    /\ Len(scenarios) = 2
    /\ Len(result) = Len(samples)
    /\ Len(samples) >= 1
    /\ start_times[2] # Zero
    /\ current_time = SumDurations(scenarios, 2)

(***************************************************************************)
(* C6: no scenario object with duration <= 0 or sample_rate <= 0 exists,   *)
(* and no sample list is returned for one.                                 *)
(***************************************************************************)
C6_NoNonPositiveScenario ==
    scenario # NoObject
    => /\ QLess(Zero, scenario.duration)
       /\ QLess(Zero, scenario.sample_rate)

(***************************************************************************)
(* C7: a Corner with radius 0 is never constructed: no Corner object has   *)
(* radius 0 or a non-finite lateral_g or yaw_rate, and a custom ride that  *)
(* asks for one generates nothing from it and returns no stream.           *)
(***************************************************************************)
C7_ZeroRadiusCornerFails ==
    /\ scenario.cls = "CornerScenario"
          => /\ scenario.radius # Zero
             /\ IsFinite(scenario.lateral_g)
             /\ IsFinite(scenario.yaw_rate)
    /\ call = "generate_custom_ride"
          => \A k \in 1 .. Len(scenarios) :
                IsZeroRadiusCorner(scenarios[k])
                   => /\ i < k
                      /\ pc # "returned"
                      /\ result = <<>>
                      /\ Len(start_times) < k

\* a custom ride with a non-zero sample rate that stopped at a zero-radius
\* corner after it had generated samples for an earlier scenario
C7_Witness ==
    /\ call = "generate_custom_ride"
    /\ pc = "raised"
    /\ exc = "ZeroDivisionError"
    /\ sample_rate # Zero
    /\ i = 1
    /\ IsZeroRadiusCorner(scenarios[2])
    /\ all_samples # <<>>
    /\ result = <<>>

(***************************************************************************)
(* C8 as stated: add_noise with accel_noise = 0 and gyro_noise = 0 returns *)
(* a stream equal to its input: timestamp and all nine channels unchanged. *)
(***************************************************************************)
ZeroSigma(run) == run.accel_noise = Zero /\ run.gyro_noise = Zero

C8_ZeroSigmaIsIdentity ==
    \A r \in 1 .. Len(runs) :
        ZeroSigma(runs[r]) => runs[r].output = runs[r].input

(***************************************************************************)
(* C8 amended: add_noise with accel_noise = 0 and gyro_noise = 0 returns a *)
(* stream of the same length in which every sample has the timestamp, the  *)
(* three accel channels and the three gyro channels of the input sample;   *)
(* the three mag channels are still perturbed, their standard deviation    *)
(* being fixed at 0.5.                                                     *)
(***************************************************************************)
C8_ZeroSigmaKeepsAccelAndGyro ==
    \A r \in 1 .. Len(runs) :
        ZeroSigma(runs[r])
        => /\ Len(runs[r].output) = Len(runs[r].input)
           /\ \A k \in 1 .. Len(runs[r].input) :
                 \A f \in {"timestamp", "accel_x", "accel_y", "accel_z",
                           "gyro_x", "gyro_y", "gyro_z"} :
                    runs[r].output[k][f] = runs[r].input[k][f]

\* a run with both sigmas 0 on a non-empty stream whose output differs from
\* its input
C8_Witness ==
    \E r \in 1 .. Len(runs) :
        /\ ZeroSigma(runs[r])
        /\ Len(runs[r].input) >= 1
        /\ runs[r].output # runs[r].input

(***************************************************************************)
(* C9: two runs of add_noise on the same input with the same sigma and the *)
(* same seed return the same output, whatever other random draws the       *)
(* process makes before or between the runs.                               *)
(***************************************************************************)
C9_SameSeedSameOutput ==
    \A a \in 1 .. Len(runs), b \in 1 .. Len(runs) :
        (/\ runs[a].input = runs[b].input
         /\ runs[a].accel_noise = runs[b].accel_noise
         /\ runs[a].gyro_noise = runs[b].gyro_noise
         /\ runs[a].seed = runs[b].seed
         /\ runs[a].seed # 0
         /\ runs[a].fresh /\ runs[b].fresh)
        => runs[a].output = runs[b].output

(***************************************************************************)
(* C10: add_noise returns a stream with as many samples as its input, the  *)
(* k-th output sample carrying the k-th input sample's timestamp, and      *)
(* leaves the input list and its samples as they were.                     *)
(***************************************************************************)
C10_NoisePreservesCountAndTimestamps ==
    \A r \in 1 .. Len(runs) :
        /\ Len(runs[r].output) = Len(runs[r].input)
        /\ \A k \in 1 .. Len(runs[r].input) :
              runs[r].output[k].timestamp = runs[r].input[k].timestamp
        /\ runs[r].input_after = runs[r].input

\* a run with positive sigmas on a stream of several samples that changed
\* at least one channel
C10_Witness ==
    \E r \in 1 .. Len(runs) :
        /\ runs[r].accel_noise # Zero
        /\ Len(runs[r].input) >= 2
        /\ runs[r].output # runs[r].input
        /\ result = runs[r].input

\* the local time of the k-th sample of the list the last generate() returned
LocalTime(k) == QMul(QInt(k - 1), TrueDiv(One, scenario.sample_rate))

\* the channels of a sample other than the given ones are those of a bike at rest
RestExcept(sample, chans) ==
    /\ chans = {"accel_x"} \/ sample.accel_x = Zero
    /\ sample.accel_y = Zero
    /\ sample.accel_z = Rat(-981, 100)
    /\ sample.gyro_x = Zero /\ sample.gyro_y = Zero /\ sample.gyro_z = Zero
    /\ sample.mag_x = QInt(20) /\ sample.mag_y = Zero /\ sample.mag_z = QInt(-40)

C14_CornerLateralAndYaw ==
    (scenario.cls = "CornerScenario")
    => LET left_g == TrueDiv(QMul(scenario.speed, scenario.speed), scenario.radius)
           left_yaw == TrueDiv(scenario.speed, scenario.radius)
           sign == IF scenario.direction = "right" THEN -1 ELSE 1
       IN  /\ scenario.lateral_g = <<sign * left_g[1], left_g[2]>>
           /\ scenario.yaw_rate = <<sign * left_yaw[1], left_yaw[2]>>
           /\ (scenario.speed = QInt(10) /\ scenario.radius = QInt(20))
                 => /\ scenario.lateral_g = QInt(sign * 5)
                    /\ scenario.yaw_rate = Rat(sign, 2)
           /\ HasGenerated
                 => \A k \in 1 .. Len(samples) :
                       /\ samples[k].accel_y = scenario.lateral_g
                       /\ samples[k].gyro_z = scenario.yaw_rate
                       /\ samples[k].gyro_x = Zero
                       /\ samples[k].gyro_y = Zero

\* a right corner of speed 10 and radius 20 has generated samples
C14_Witness ==
    /\ pc = "generated"
    /\ scenario.cls = "CornerScenario"
    /\ scenario.direction = "right"
    /\ scenario.speed = QInt(10) /\ scenario.radius = QInt(20)
    /\ Len(samples) >= 2
    /\ samples[2].accel_y = QInt(-5)
    /\ samples[2].gyro_z = Rat(-1, 2)

(***************************************************************************)
(* C15: a Vibration sample differs from the sample its base scenario       *)
(* computes at the same local time only in accel_z, which is the base's    *)
(* accel_z plus amplitude * sin(2 pi frequency t); every other channel is  *)
(* the base's.                                                             *)
(***************************************************************************)
C15_VibrationOnlyInAccelZ ==
    (HasGenerated /\ scenario.cls = "VibrationScenario")
    => \A k \in 1 .. Len(samples) :
          LET t == LocalTime(k)
              base == ComputeSample(scenario.base_scenario, t)
              turns == QMul(scenario.vibration_freq, t)
              vib_z == IF turns = Zero THEN Zero
                       ELSE <<0, 1, <<"sin", scenario.vibration_amplitude,
                                      <<"2pi", turns[1], turns[2]>>>>>>
          IN  /\ \A c \in Channels \ {"accel_z"} : samples[k][c] = base[c]
              /\ samples[k].accel_z = VSum(base.accel_z, vib_z)

\* a Vibration around an Acceleration scenario: the second sample carries
\* the base's accel_x and a vibration term in accel_z
C15_Witness ==
    /\ pc = "generated"
    /\ scenario.cls = "VibrationScenario"
    /\ scenario.base_scenario.cls = "AccelerationScenario"
    /\ Len(samples) = 2
    /\ samples[1].accel_x = scenario.base_scenario.accel_rate
    /\ samples[1].accel_z = Rat(-981, 100)
    /\ Len(samples[2].accel_z) = 3

(***************************************************************************)
(* C16: every sample of a Stationary scenario has accel (0, 0, -9.81),     *)
(* gyro (0, 0, 0) and mag (20, 0, -40), whatever the duration, rate and    *)
(* start time; Stationary(5 s, 100 Hz) generated at 0 yields exactly 500   *)
(* samples.                                                                *)
(***************************************************************************)
C16_StationarySamples ==
    (HasGenerated /\ scenario.cls = "StationaryScenario")
    => /\ \A k \in 1 .. Len(samples) : RestExcept(samples[k], {})
       /\ (scenario.duration = QInt(5) /\ scenario.sample_rate = QInt(100)
             /\ LastStart = Zero)
             => Len(samples) = 500

\* the first segment of the test ride at 100 Hz: Stationary(5, 100) from 0
C16_Witness ==
    /\ call = "generate_test_ride"
    /\ i = 1
    /\ scenario.cls = "StationaryScenario"
    /\ scenario.duration = QInt(5) /\ scenario.sample_rate = QInt(100)
    /\ LastStart = Zero
    /\ Len(samples) = 500

(***************************************************************************)
(* C17: in generate_custom_ride an entry of unknown kind raises no error:  *)
(* its samples are those of a Stationary scenario of the same duration and *)
(* rate generated at the cursor, the cursor advances by the duration, and  *)
(* the remaining entries are processed.                                    *)
(***************************************************************************)
C17_UnknownKindIsStationary ==
    (call = "generate_custom_ride")
    => /\ (i >= 1 /\ pc = "custom" /\ scenarios[i][1] \notin KnownTypes)
             => LET st == StationaryScenario(DurationOf(scenarios, i), sample_rate)
                IN  /\ st.exc = ""
                    /\ scenario = st.obj
                    /\ samples = Generate(st.obj, start_times[i])
                    /\ current_time = QAdd(start_times[i], DurationOf(scenarios, i))
       \* the only error at such an entry is the one Stationary raises as well
       /\ (pc = "raised" /\ scenarios[i + 1][1] \notin KnownTypes)
             => StationaryScenario(DurationOf(scenarios, i + 1), sample_rate).exc = exc
       /\ (pc = "returned")
             => Len(start_times) = Len(scenarios)

\* a ride whose first entry is of unknown kind has returned, with samples of
\* both entries
C17_Witness ==
    /\ call = "generate_custom_ride"
    /\ pc = "returned"
    /\ Len(scenarios) = 2
    /\ scenarios[1][1] \notin KnownTypes
    /\ start_times[2] = DurationOf(scenarios, 1)
    /\ Len(result) >= 2
    /\ result[Len(result)].timestamp # Zero

\* the scenario list a command line stands for before any total is applied:
\* the preset's table, the listed kinds at 5.0 s each, or the test ride
OriginalScenarios(a) ==
    IF a.preset # "" THEN PresetTable(a.preset)
    ELSE IF a.scenarios # <<>> THEN ListedScenarios(a.scenarios, None)
    ELSE TestRideSegments

\* main has determined the scenarios and the sequencer has not started
MainHasSelected == args.parsed /\ pc \in {"custom", "test"} /\ i = 0

\* every duration of the ride is the original one times requested / original total
RescaledToRequestedTotal ==
    LET original == OriginalScenarios(args)
        factor == TrueDiv(args.duration, SumDurations(original, Len(original)))
    IN  /\ Len(scenarios) = Len(original)
        /\ \A k \in 1 .. Len(scenarios) :
              DurationOf(scenarios, k) = QMul(DurationOf(original, k), factor)
        /\ SumDurations(scenarios, Len(scenarios)) = args.duration

(***************************************************************************)
(* C18: when a total duration is requested, every scenario's duration is   *)
(* multiplied by requested_total / original_total, so the durations keep   *)
(* their proportions and sum to the requested total, for a preset, for a   *)
(* --scenarios list and for the default test ride.                         *)
(***************************************************************************)
C18_RequestedTotalRescalesEveryRide ==
    (MainHasSelected /\ args.duration # None) => RescaledToRequestedTotal

(***************************************************************************)
(* C19: in generate_custom_ride a parameter set without 'duration' is      *)
(* treated as duration 5.0: the scenario is built with duration 5.0,       *)
(* produces floor(5.0 * sample_rate) samples and advances the cursor by    *)
(* 5.0; a parameter set with a duration is used with it unchanged.         *)
(***************************************************************************)
C19_MissingDurationIsFive ==
    [][ (call = "generate_custom_ride" /\ pc = "custom" /\ i' = i + 1)
        => LET params == scenarios[i + 1][2]
           IN  /\ "duration" \notin DOMAIN params
                  => /\ scenario'.duration = QInt(5)
                     /\ Len(samples') = Floor(QMul(QInt(5), sample_rate))
                     /\ current_time' = QAdd(current_time, QInt(5))
               /\ "duration" \in DOMAIN params
                  => /\ scenario'.duration = params["duration"]
                     /\ current_time' = QAdd(current_time, params["duration"])
                     /\ scenarios'[i + 1][2] = params ]_vars

\* a VibrationScenario stands on concrete scenario classes only
RECURSIVE IsConcrete(_)
IsConcrete(scn) ==
    CASE scn.cls = "VibrationScenario" -> IsConcrete(scn.base_scenario)
      [] scn.cls = "MotionScenario" -> FALSE
      [] OTHER -> scn # NoObject

(***************************************************************************)
(* C20: once a scenario object is constructed (any variant, a Vibration    *)
(* wrapping any constructed scenario object included), generate() for any  *)
(* start time and add_noise on the result return a list and never raise.   *)
(***************************************************************************)
C20_GenerateNeverRaises ==
    (call = "generate" /\ scenario.cls = "VibrationScenario") => pc # "raised"

(***************************************************************************)
(* C20, amended: the same for objects of the concrete classes Stationary,  *)
(* Acceleration, Corner and Braking and for a Vibration that wraps, at any *)
(* depth, an object of those.                                              *)
(***************************************************************************)
C20_ConcreteGenerateNeverRaises ==
    (call = "generate" /\ IsConcrete(scenario))
    => /\ pc = "generated"
       /\ exc = ""
       /\ result = samples
       /\ Len(samples) = NumSamples(scenario)
       /\ \A sigma \in SigmaChoices :
             LET out == AddNoise(result, sigma[1], sigma[2], rng)
             IN  /\ DOMAIN out.noisy_samples = 1 .. Len(result)
                 /\ \A k \in 1 .. Len(result) :
                       DOMAIN out.noisy_samples[k] = DOMAIN result[k]

\* a Vibration around a concrete scenario has generated a non-empty list
C20_Witness ==
    /\ call = "generate"
    /\ pc = "generated"
    /\ scenario.cls = "VibrationScenario"
    /\ IsConcrete(scenario)
    /\ Len(result) >= 2

(***************************************************************************)
(* C21: the timeline of a Vibration is set by its own duration and         *)
(* sample_rate alone: generate(t0) returns floor(own duration * own        *)
(* sample_rate) samples at the local times i * (own dt), whatever the      *)
(* duration and sample_rate of the wrapped base, which is only asked for   *)
(* its values at the wrapper's local time, also beyond its own duration.   *)
(***************************************************************************)
C21_VibrationOwnTimeline ==
    (HasGenerated /\ scenario.cls = "VibrationScenario")
    => /\ Len(samples) = Floor(QMul(scenario.duration, scenario.sample_rate))
       /\ \A k \in 1 .. Len(samples) :
             /\ samples[k].timestamp = QAdd(LastStart, LocalTime(k))
             /\ \A c \in Channels \ {"accel_z"} :
                   samples[k][c] = ComputeSample(scenario.base_scenario, LocalTime(k))[c]

(***************************************************************************)
(* C23: once the ride is generated, main writes the CSV and terminates     *)
(* normally for every configuration it accepts (stated here for those      *)
(* with a positive sample rate and a positive or absent total duration),   *)
(* also when the stream has no sample; the duration it reports is the      *)
(* timestamp of the last sample.                                           *)
(***************************************************************************)
C23_MainTerminatesNormally ==
    (args.parsed /\ call = "main" /\ QLess(Zero, args.sample_rate)
        /\ (args.duration = None \/ QLess(Zero, args.duration)))
    => /\ pc = "done"
       /\ exc = ""
       /\ output.csv = WriteCsv(result)
       /\ result # <<>> => output.duration = result[Len(result)].timestamp

(***************************************************************************)
(* C22: fix_stuck_files sets 'failed' only on records whose status is      *)
(* 'uploaded' or 'parsing' when the update is applied: whatever the        *)
(* pipeline does between the query and the update, a file that has         *)
(* reached 'ready' is never overwritten to 'failed', and an update changes *)
(* no file but the selected one.                                           *)
(***************************************************************************)
C22_FailedOnlyFromUploadedOrParsing ==
    [][ \A f \in DOMAIN files :
          /\ (files'[f].status = "failed" /\ files[f].status # "failed")
                => files[f].status \in {"uploaded", "parsing"}
          /\ (fix.pc = "updating" /\ fix' # fix /\ files'[f] # files[f])
                => f = fix.stuck_files[fix.j + 1] ]_vars

(***************************************************************************)
(* C24: every status the tools write is one every reporting tool knows as  *)
(* a failure: a file fix_stuck_files has marked is reported by             *)
(* check_file_status and by debug_production with the error marker and     *)
(* with its error_message, and suggest_fixes lists it among the files      *)
(* with errors.                                                            *)
(***************************************************************************)
C24_MarkedFilesReportedAsErrors ==
    \A f \in DOMAIN report.lines :
        (report.tool \in {"check_file_status", "debug_production"}
            /\ report.lines[f].status = "failed")
        => /\ report.lines[f].emoji = "cross"
           /\ report.lines[f].error_shown
           /\ report.tool = "debug_production" => report.lines[f].listed
====
